---- MODULE Spec2Model ----
(***************************************************************************)
(* Model of app/api/main.py: the bearer-token resolver (verify_token), the *)
(* rate-limit retry wrapper around upstream GET requests                   *)
(* (make_twitter_request), and the VADER sentiment scorer with its         *)
(* background model load (load_model, analyze_sentiment,                   *)
(* analyze_tweets_sentiment, health_check).                                *)
(*                                                                         *)
(* Two specifications share the module: Spec runs the upstream-request     *)
(* path, SpecScorer runs the load thread against the scoring handlers.     *)
(***************************************************************************)
EXTENDS Integers, Sequences, FiniteSets, TLC

\* ------------------------------------------------------------------ bounds
\* longest retry-after header text the upstream sends in the model
MaxHdrLen == 2
\* longest tweet list a batch request carries in the model
MaxTweets == 3

\* ------------------------------------------------------- program constants
\* def make_twitter_request(url, headers, params, max_retries=3)
max_retries == 3
\* response.headers.get('retry-after', 60)
DEFAULT_RETRY_AFTER == 60

VARIABLES
    \* --- process-wide configuration
    DEFAULT_BEARER_TOKEN,   \* os.getenv("TWITTER_BEARER_TOKEN", "")
    \* --- one route handler call into make_twitter_request
    pc,                     \* "idle" | "loop" | "inflight" | "returned" | "raised"
    credentials,            \* what the caller supplied to verify_token
    token,                  \* what verify_token returned, sent as Bearer token
    attempt,                \* the for-loop index of make_twitter_request
    requests,               \* number of requests.get calls issued by this call
    waits,                  \* the time.sleep durations of this call, in order
    received,               \* the upstream outcomes this call has seen, in order
    result,                 \* the value the call returned
    exc,                    \* the exception that escaped the call
    \* --- sentiment scorer
    MODEL_LOADED,           \* the module global flag
    sia,                    \* the module global analyzer ("unset" until assigned)
    load_pc,                \* position of the load_model thread
    flag_writes,            \* number of assignments to MODEL_LOADED so far
    hpc,                    \* position of the request handler on the event loop
    tweets,                 \* request.tweets of the batch handler
    observed,               \* what the batch handler read from MODEL_LOADED
    individual_results,     \* the batch handler's list under construction
    response,               \* the last handler's response
    score_out               \* outcome of the last direct analyze_sentiment call

execVars == <<pc, credentials, token, attempt, requests, waits, received, result, exc>>
scorerVars == <<MODEL_LOADED, sia, load_pc, flag_writes, hpc, tweets, observed,
                individual_results, response, score_out>>
vars == <<DEFAULT_BEARER_TOKEN, execVars, scorerVars>>

\* ---------------------------------------------------------- token resolver
\* credentials.credentials values a caller can put in the Authorization header
CallerTokens == {"", "dummy-token", "abc", "xyz"}
\* values the environment can hold for TWITTER_BEARER_TOKEN ("" when unset)
EnvTokens == {"", "env-token"}
\* the credentials object: None, or an object carrying .credentials
NoCredentials == [present |-> FALSE, credentials |-> ""]
Credentials == {NoCredentials} \cup {[present |-> TRUE, credentials |-> t] : t \in CallerTokens}

\* Python truthiness of a str
Truthy(s) == s # ""

verify_token_no_placeholder(cred) ==
    IF cred.present /\ Truthy(cred.credentials)
    THEN cred.credentials
    ELSE DEFAULT_BEARER_TOKEN

verify_token(cred) ==
    IF cred.present /\ Truthy(cred.credentials) /\ cred.credentials # "dummy-token"
    THEN cred.credentials
    ELSE DEFAULT_BEARER_TOKEN

\* ------------------------------------------------------ retry-after header
HdrAlphabet == {"0", "1", "-", "x"}
Digits == {"0", "1"}
DigitVal(c) == IF c = "1" THEN 1 ELSE 0

HdrTexts == UNION {[1..n -> HdrAlphabet] : n \in 0..MaxHdrLen}
\* response.headers.get('retry-after'): missing, or the header's text
HdrAbsent == [present |-> FALSE, text |-> <<>>]
Headers == {HdrAbsent} \cup {[present |-> TRUE, text |-> s] : s \in HdrTexts}

AllDigits(s) == \A i \in 1..Len(s) : s[i] \in Digits

\* whether int(text) succeeds: an optional sign, then at least one digit
IsIntText(s) ==
    /\ Len(s) >= 1
    /\ IF s[1] = "-" THEN Len(s) >= 2 /\ AllDigits(Tail(s)) ELSE AllDigits(s)

RECURSIVE DecimalValue(_)
DecimalValue(s) ==
    IF s = <<>> THEN 0 ELSE 10 * DecimalValue(SubSeq(s, 1, Len(s) - 1)) + DigitVal(s[Len(s)])

IntOf(s) == IF s[1] = "-" THEN 0 - DecimalValue(Tail(s)) ELSE DecimalValue(s)

\* int(response.headers.get('retry-after', 60)): the value, or ValueError
retry_after(h) ==
    IF ~h.present THEN [ok |-> TRUE, val |-> DEFAULT_RETRY_AFTER]
    ELSE IF IsIntText(h.text) THEN [ok |-> TRUE, val |-> IntOf(h.text)]
    ELSE [ok |-> FALSE, val |-> 0]

\* time.sleep(d) raises ValueError for a negative d
SleepOk(d) == d >= 0

\* ------------------------------------------------------------- JSON bodies
BodyTexts == {"{\"data\":{\"id\":\"1\"}}", "{\"errors\":[{\"detail\":\"Not Found\"}]}", "<html>"}
IsJson(b) == b # "<html>"
\* response.json() on a parseable body
Json(b) ==
    IF b = "{\"data\":{\"id\":\"1\"}}" THEN [data |-> [id |-> "1"]]
    ELSE [errors |-> <<[detail |-> "Not Found"]>>]

None == [none |-> TRUE]
EXHAUSTED == [errors |-> <<[detail |-> "Maximum retries exceeded due to rate limits"]>>]

\* ------------------------------------------------------- upstream outcomes
Statuses == {200, 201, 404, 429, 500}
\* what requests.get produces: a response of any status, or a
\* RequestException that carries no response (connection-level failure)
NoResponse == [kind |-> "noresponse", status |-> 0, retry_after |-> HdrAbsent, body |-> ""]
Responses ==
    {[kind |-> "response", status |-> 429, retry_after |-> h, body |-> "{\"errors\":[{\"detail\":\"Not Found\"}]}"] :
        h \in Headers}
    \cup
    {[kind |-> "response", status |-> s, retry_after |-> HdrAbsent, body |-> b] :
        s \in Statuses \ {429}, b \in BodyTexts}
Outcomes == Responses \cup {NoResponse}

\* response.raise_for_status() raises HTTPError for 4xx and 5xx
RaisesForStatus(s) == s >= 400 /\ s < 600

\* --------------------------------------------------- make_twitter_request
\* how one pass through the loop body ends
Retry(d) == [next |-> "retry", slept |-> <<d>>, value |-> None, exc |-> ""]
Return(v) == [next |-> "return", slept |-> <<>>, value |-> v, exc |-> ""]
Raise(x) == [next |-> "raise", slept |-> <<>>, value |-> None, exc |-> x]

\* retry_after = int(headers.get('retry-after', 60)); time.sleep(retry_after); continue
\* int() and time.sleep() raise ValueError, which no except clause here catches
backoff(h) ==
    LET ra == retry_after(h) IN
    IF ~ra.ok THEN Raise("ValueError")
    ELSE IF ~SleepOk(ra.val) THEN Raise("ValueError")
    ELSE Retry(ra.val)

\* variant: the handler retries every error status, not only 429
except_handler_retry_any(resp, att) ==
    IF resp.kind = "response"
    THEN IF att < max_retries - 1
         THEN backoff(resp.retry_after)
         ELSE IF IsJson(resp.body) THEN Return(Json(resp.body))
              ELSE Raise("JSONDecodeError")
    ELSE Raise("RequestException")

\* except requests.exceptions.RequestException as e: (e.response is resp, or None)
except_handler(resp, att) ==
    IF resp.kind = "response"
    THEN IF resp.status = 429 /\ att < max_retries - 1
         THEN backoff(resp.retry_after)
         ELSE IF IsJson(resp.body) THEN Return(Json(resp.body))
              ELSE Raise("JSONDecodeError")
    ELSE Raise("RequestException")

\* variant: the 429 branch lacks its continue and falls through to
\* raise_for_status, whose HTTPError the handler then sees
try_body_no_continue(o, att) ==
    IF o.kind = "noresponse" THEN except_handler(o, att)
    ELSE IF o.status = 429
    THEN LET b == backoff(o.retry_after) IN
         IF b.next = "retry"
         THEN LET e == except_handler(o, att) IN [e EXCEPT !.slept = b.slept \o e.slept]
         ELSE b
    ELSE IF RaisesForStatus(o.status) THEN except_handler(o, att)
    ELSE IF IsJson(o.body) THEN Return(Json(o.body))
    ELSE Raise("JSONDecodeError")

\* the try block of one loop iteration, given what requests.get produced
try_body(o, att) ==
    IF o.kind = "noresponse" THEN except_handler(o, att)
    ELSE IF o.status = 429 THEN backoff(o.retry_after)
    ELSE IF RaisesForStatus(o.status) THEN except_handler(o, att)
    ELSE IF IsJson(o.body) THEN Return(Json(o.body))
    ELSE Raise("JSONDecodeError")

\* variant: the loop bound is off by one
loop_continues_off_by_one(att) == att <= max_retries

\* whether the for loop has another iteration: attempt in range(max_retries)
loop_continues(att) == att < max_retries

\* a route handler resolves the token and enters make_twitter_request
RouteHandler(cred) ==
    /\ pc \in {"idle", "returned", "raised"}
    /\ credentials' = cred
    /\ token' = verify_token(cred)
    /\ attempt' = 0
    /\ requests' = 0
    /\ waits' = <<>>
    /\ received' = <<>>
    /\ result' = None
    /\ exc' = ""
    /\ pc' = "loop"
    /\ UNCHANGED <<DEFAULT_BEARER_TOKEN, scorerVars>>

\* response = requests.get(url, headers=headers, params=params) is issued
SendRequest ==
    /\ pc = "loop"
    /\ loop_continues(attempt)
    /\ requests' = requests + 1
    /\ pc' = "inflight"
    /\ UNCHANGED <<DEFAULT_BEARER_TOKEN, credentials, token, attempt, waits, received,
                   result, exc, scorerVars>>

\* the request completes with outcome o and the rest of the loop body runs
Receive(o) ==
    /\ pc = "inflight"
    /\ received' = Append(received, o)
    /\ LET st == try_body(o, attempt) IN
        /\ waits' = waits \o st.slept
        /\ result' = st.value
        /\ exc' = st.exc
        /\ attempt' = IF st.next = "retry" THEN attempt + 1 ELSE attempt
        /\ pc' = CASE st.next = "retry" -> "loop"
                  [] st.next = "return" -> "returned"
                  [] OTHER -> "raised"
    /\ UNCHANGED <<DEFAULT_BEARER_TOKEN, credentials, token, requests, scorerVars>>

\* the loop is exhausted: return the synthesized error payload
ReturnExhausted ==
    /\ pc = "loop"
    /\ ~loop_continues(attempt)
    /\ result' = EXHAUSTED
    /\ pc' = "returned"
    /\ UNCHANGED <<DEFAULT_BEARER_TOKEN, credentials, token, attempt, requests, waits,
                   received, exc, scorerVars>>

Init ==
    /\ DEFAULT_BEARER_TOKEN \in EnvTokens
    /\ pc = "idle"
    /\ credentials = NoCredentials
    /\ token = ""
    /\ attempt = 0
    /\ requests = 0
    /\ waits = <<>>
    /\ received = <<>>
    /\ result = None
    /\ exc = ""
    /\ MODEL_LOADED = FALSE
    /\ sia = "unset"
    /\ load_pc = "start"
    /\ flag_writes = 0
    /\ hpc = "idle"
    /\ tweets = <<>>
    /\ observed = FALSE
    /\ individual_results = <<>>
    /\ response = [kind |-> "none"]
    /\ score_out = [kind |-> "none"]

Next ==
    \/ \E cred \in Credentials : RouteHandler(cred)
    \/ SendRequest
    \/ \E o \in Outcomes : Receive(o)
    \/ ReturnExhausted

Spec == Init /\ [][Next]_vars

\* -------------------------------------------------------- sentiment scorer
\* Scores are floats in the program; the model keeps them as exact numbers in
\* thousandths (1.0 is 1000), and a mean as the fraction num/den.
Texts == {"I love this", "I hate this", "ok then", ""}
TweetLists == UNION {[1..n -> Texts] : n \in 0..MaxTweets}
Labels == <<"negative", "neutral", "positive">>

\* sia.polarity_scores(text): the lexicon analyzer's answer for each text
polarity_scores(text) ==
    CASE text = "I love this" -> [neg |-> 0, neu |-> 192, pos |-> 808, compound |-> 637]
      [] text = "I hate this" -> [neg |-> 787, neu |-> 213, pos |-> 0, compound |-> -572]
      [] text = "ok then" -> [neg |-> 300, neu |-> 400, pos |-> 300, compound |-> 30]
      [] OTHER -> [neg |-> 0, neu |-> 0, pos |-> 0, compound |-> 0]

Abs(x) == IF x < 0 THEN 0 - x ELSE x

\* the fixed result analyze_sentiment returns while the model is not loaded
STUB ==
    [scores |-> [negative |-> 0, neutral |-> 1000, positive |-> 0],
     sentiment |-> "neutral",
     confidence |-> 1000]

\* lines 236-258: score with the analyzer and label by the compound score
scored(text) ==
    LET scores == polarity_scores(text) IN
    [scores |-> [negative |-> scores.neg, neutral |-> scores.neu, positive |-> scores.pos],
     sentiment |-> IF scores.compound >= 50 THEN "positive"
                   ELSE IF scores.compound <= -50 THEN "negative"
                   ELSE "neutral",
     confidence |-> Abs(scores.compound)]

\* variant: no check of MODEL_LOADED before the analyzer is used
analyze_sentiment_no_guard(text) ==
    IF sia = "unset"
    THEN [raised |-> TRUE, touched |-> TRUE, value |-> STUB]
    ELSE [raised |-> FALSE, touched |-> TRUE, value |-> scored(text)]

\* analyze_sentiment(text): reads the globals MODEL_LOADED and sia; using the
\* name sia before load_model assigned it raises NameError
analyze_sentiment(text) ==
    IF ~MODEL_LOADED
    THEN [raised |-> FALSE, touched |-> FALSE, value |-> STUB]
    ELSE IF sia = "unset"
    THEN [raised |-> TRUE, touched |-> TRUE, value |-> STUB]
    ELSE [raised |-> FALSE, touched |-> TRUE, value |-> scored(text)]

\* variant: results are inserted at the front of the list
append_result_front(results, tweet, r) ==
    <<[text |-> tweet, sentiment |-> r.sentiment, scores |-> r.scores]>> \o results

\* individual_results.append({"text": tweet, "sentiment": ..., "scores": ...})
append_result(results, tweet, r) ==
    Append(results, [text |-> tweet, sentiment |-> r.sentiment, scores |-> r.scores])

RECURSIVE SumScores(_, _)
\* sum(r["scores"][key] for r in individual_results)
SumScores(results, key) ==
    IF results = <<>> THEN 0
    ELSE results[1].scores[key] + SumScores(Tail(results), key)

Rat(n, d) == [num |-> n, den |-> d]
\* a/b >= c/d for positive b and d
RatGeq(x, y) == x.num * y.den >= y.num * x.den
RatGt(x, y) == x.num * y.den > y.num * x.den

\* max(avg_scores, key=avg_scores.get): the first key, in insertion order
\* negative, neutral, positive, whose value no other key exceeds
first_max_label(avg) ==
    LET best(i) == \A j \in 1..3 : RatGeq(avg[Labels[i]], avg[Labels[j]])
        k == CHOOSE i \in 1..3 : best(i) /\ \A j \in 1..(i - 1) : ~best(j)
    IN Labels[k]

NEUTRAL_OVERALL ==
    [sentiment |-> "neutral",
     scores |-> [negative |-> Rat(0, 1), neutral |-> Rat(1000, 1), positive |-> Rat(0, 1)]]

\* the averaging branch, lines 297-310; dividing by len() = 0 raises
average_overall(results) ==
    IF Len(results) = 0
    THEN [raised |-> TRUE, value |-> NEUTRAL_OVERALL]
    ELSE LET avg_scores == [k \in {"negative", "neutral", "positive"} |->
                               Rat(SumScores(results, k), Len(results))]
         IN [raised |-> FALSE,
             value |-> [sentiment |-> first_max_label(avg_scores), scores |-> avg_scores]]

\* variant: the empty list is not special-cased
overall_of_no_empty_case(results) == average_overall(results)

\* lines 293-310: the overall sentiment of a batch
overall_of(results) ==
    IF results = <<>>
    THEN [raised |-> FALSE, value |-> NEUTRAL_OVERALL]
    ELSE average_overall(results)

\* the response of the batch handler while the model is not loaded (276-279)
LOADING_RESPONSE ==
    [kind |-> "batch",
     overall |-> NEUTRAL_OVERALL,
     individual |-> <<[text |-> "Model still loading...", sentiment |-> "neutral",
                       scores |-> [negative |-> 0, neutral |-> 1000, positive |-> 0]]>>]

\* ---- the load_model thread, started once at import
\* nltk.download('vader_lexicon', quiet=True) returns
LoadDownload ==
    /\ load_pc = "start"
    /\ load_pc' = "downloaded"
    /\ UNCHANGED <<DEFAULT_BEARER_TOKEN, execVars, MODEL_LOADED, sia, flag_writes, hpc,
                   tweets, observed, individual_results, response, score_out>>

\* variant: the flag is set before the analyzer is constructed
LoadConstruct_flag_first ==
    /\ load_pc = "downloaded"
    /\ MODEL_LOADED' = TRUE
    /\ flag_writes' = flag_writes + 1
    /\ load_pc' = "constructed"
    /\ UNCHANGED <<DEFAULT_BEARER_TOKEN, execVars, sia, hpc, tweets, observed,
                   individual_results, response, score_out>>

\* sia = SentimentIntensityAnalyzer()
LoadConstruct ==
    /\ load_pc = "downloaded"
    /\ sia' = "analyzer"
    /\ load_pc' = "constructed"
    /\ UNCHANGED <<DEFAULT_BEARER_TOKEN, execVars, MODEL_LOADED, flag_writes, hpc,
                   tweets, observed, individual_results, response, score_out>>

\* MODEL_LOADED = True
LoadPublish ==
    /\ load_pc = "constructed"
    /\ MODEL_LOADED' = TRUE
    /\ flag_writes' = flag_writes + 1
    /\ load_pc' = "done"
    /\ UNCHANGED <<DEFAULT_BEARER_TOKEN, execVars, sia, hpc, tweets, observed,
                   individual_results, response, score_out>>

\* variant: the failure path sets the flag as well
LoadFail_sets_flag ==
    /\ load_pc \in {"start", "downloaded"}
    /\ load_pc' = "failed"
    /\ MODEL_LOADED' = TRUE
    /\ flag_writes' = flag_writes + 1
    /\ UNCHANGED <<DEFAULT_BEARER_TOKEN, execVars, sia, hpc, tweets, observed,
                   individual_results, response, score_out>>

\* the download or the constructor raises: except Exception prints and the
\* thread ends
LoadFail ==
    /\ load_pc \in {"start", "downloaded"}
    /\ load_pc' = "failed"
    /\ UNCHANGED <<DEFAULT_BEARER_TOKEN, execVars, MODEL_LOADED, sia, flag_writes, hpc,
                   tweets, observed, individual_results, response, score_out>>

\* ---- request handlers; async def without await, so one at a time
\* POST /analyze/sentiment up to the loop: the check of MODEL_LOADED at 275
BatchBegin(ts) ==
    /\ hpc = "idle"
    /\ tweets' = ts
    /\ observed' = MODEL_LOADED
    /\ individual_results' = <<>>
    /\ response' = [kind |-> "pending"]
    /\ hpc' = IF ~MODEL_LOADED THEN "batch_not_loaded" ELSE "batch_loop"
    /\ UNCHANGED <<DEFAULT_BEARER_TOKEN, execVars, MODEL_LOADED, sia, load_pc, flag_writes,
                   score_out>>

\* the branch taken when the check at 275 read False: return the placeholder
BatchReturnLoading ==
    /\ hpc = "batch_not_loaded"
    /\ response' = LOADING_RESPONSE
    /\ hpc' = "idle"
    /\ UNCHANGED <<DEFAULT_BEARER_TOKEN, execVars, MODEL_LOADED, sia, load_pc, flag_writes,
                   tweets, observed, individual_results, score_out>>

\* one iteration of: for tweet in request.tweets
BatchStep ==
    /\ hpc = "batch_loop"
    /\ Len(individual_results) < Len(tweets)
    /\ LET tweet == tweets[Len(individual_results) + 1]
           r == analyze_sentiment(tweet)
       IN IF r.raised
          THEN /\ response' = [kind |-> "error", exc |-> "NameError"]
               /\ hpc' = "idle"
               /\ UNCHANGED individual_results
          ELSE /\ individual_results' = append_result(individual_results, tweet, r.value)
               /\ UNCHANGED <<response, hpc>>
    /\ UNCHANGED <<DEFAULT_BEARER_TOKEN, execVars, MODEL_LOADED, sia, load_pc, flag_writes,
                   tweets, observed, score_out>>

\* after the loop: compute overall and return
BatchFinish ==
    /\ hpc = "batch_loop"
    /\ Len(individual_results) >= Len(tweets)
    /\ LET ov == overall_of(individual_results) IN
       response' = IF ov.raised
                   THEN [kind |-> "error", exc |-> "ZeroDivisionError"]
                   ELSE [kind |-> "batch", overall |-> ov.value,
                         individual |-> individual_results]
    /\ hpc' = "idle"
    /\ UNCHANGED <<DEFAULT_BEARER_TOKEN, execVars, MODEL_LOADED, sia, load_pc, flag_writes,
                   tweets, observed, individual_results, score_out>>

\* GET /health
HealthCheck ==
    /\ hpc = "idle"
    /\ response' = [kind |-> "health", status |-> "ok", model_loaded |-> MODEL_LOADED]
    /\ UNCHANGED <<DEFAULT_BEARER_TOKEN, execVars, MODEL_LOADED, sia, load_pc, flag_writes,
                   hpc, tweets, observed, individual_results, score_out>>

\* a direct call analyze_sentiment(text) of the module-level function
ScoreCall(text) ==
    /\ hpc = "idle"
    /\ LET r == analyze_sentiment(text) IN
       score_out' = [kind |-> "call", text |-> text, loaded |-> MODEL_LOADED,
                     raised |-> r.raised, touched |-> r.touched, value |-> r.value]
    /\ UNCHANGED <<DEFAULT_BEARER_TOKEN, execVars, MODEL_LOADED, sia, load_pc, flag_writes,
                   hpc, tweets, observed, individual_results, response>>

NextScorer ==
    \/ LoadDownload
    \/ LoadConstruct
    \/ LoadPublish
    \/ LoadFail
    \/ \E ts \in TweetLists : BatchBegin(ts)
    \/ BatchReturnLoading
    \/ BatchStep
    \/ BatchFinish
    \/ HealthCheck
    \/ \E text \in Texts : ScoreCall(text)

SpecScorer == Init /\ [][NextScorer]_vars

\* ======================================================== claims, executor
Finished == pc \in {"returned", "raised"}
Is429(o) == o.kind = "response" /\ o.status = 429
Is2xx(o) == o.kind = "response" /\ o.status >= 200 /\ o.status < 300
IsNon429Error(o) == o.kind = "response" /\ RaisesForStatus(o.status) /\ o.status # 429
\* a header of the form retry-after: N, N a number of seconds
IsSeconds(h) == h.present /\ IsIntText(h.text) /\ IntOf(h.text) >= 0
RateLimited(h) ==
    [kind |-> "response", status |-> 429, retry_after |-> h, body |-> "{\"errors\":[{\"detail\":\"Not Found\"}]}"]
Last(q) == q[Len(q)]

\* C1: as long as every response of a call has been 429 with retry-after: N,
\* the call has slept N once per 429 received (so N before each retry), it
\* never has more than three requests issued, and after the third 429 it has
\* not raised and returns exactly the exhausted-retries payload.
C1_ThreeRateLimits ==
    /\ requests <= 3
    /\ \A h \in Headers :
        (IsSeconds(h) /\ \A i \in 1..Len(received) : received[i] = RateLimited(h)) =>
            /\ waits = [i \in 1..Len(received) |-> IntOf(h.text)]
            /\ requests = Len(received) + (IF pc = "inflight" THEN 1 ELSE 0)
            /\ pc # "raised"
            /\ (pc = "returned" => Len(received) = 3 /\ result = EXHAUSTED)
            /\ (Len(received) = 3 => pc \in {"loop", "returned"})

C1_Witness ==
    /\ pc = "returned"
    /\ received = [i \in 1..3 |-> RateLimited([present |-> TRUE, text |-> <<"1", "0">>])]
    /\ waits = <<10, 10, 10>>
    /\ requests = 3
    /\ result = EXHAUSTED

\* C2: when a call's responses are k 429s followed by a 2xx with a JSON body,
\* k is below 3, and the call has returned that body's JSON after exactly
\* k+1 requests and k sleeps.
C2_RateLimitedThenSuccess ==
    (/\ Len(received) >= 1
     /\ Is2xx(Last(received))
     /\ IsJson(Last(received).body)
     /\ \A i \in 1..(Len(received) - 1) : Is429(received[i]))
    =>  /\ Len(received) - 1 < 3
        /\ pc = "returned"
        /\ result = Json(Last(received).body)
        /\ requests = Len(received)
        /\ Len(waits) = Len(received) - 1

C2_Witness ==
    /\ pc = "returned"
    /\ Len(received) = 2
    /\ Is429(received[1])
    /\ received[2].status = 200
    /\ result = [data |-> [id |-> "1"]]
    /\ requests = 2
    /\ Len(waits) = 1

\* C3: when the latest response of a call is a non-429 4xx/5xx with a JSON
\* body, the call has returned that body's JSON, with no request and no sleep
\* after that response; on the first attempt that means one request, no sleep.
C3_ErrorBodyPassThrough ==
    (/\ Len(received) >= 1
     /\ IsNon429Error(Last(received))
     /\ IsJson(Last(received).body))
    =>  /\ pc = "returned"
        /\ result = Json(Last(received).body)
        /\ requests = Len(received)
        /\ Len(waits) = Len(received) - 1
        /\ (Len(received) = 1 => requests = 1 /\ waits = <<>>)

C3_Witness ==
    /\ pc = "returned"
    /\ Len(received) = 1
    /\ received[1].status = 404
    /\ received[1].body = "{\"errors\":[{\"detail\":\"Not Found\"}]}"
    /\ result = [errors |-> <<[detail |-> "Not Found"]>>]
    /\ requests = 1
    /\ waits = <<>>

\* the outcomes C4 ranges over: every body is a JSON body
BodiesAreJson == \A i \in 1..Len(received) :
    received[i].kind = "response" => IsJson(received[i].body)
WellFormed(r) == r = EXHAUSTED \/ \E b \in BodyTexts : IsJson(b) /\ r = Json(b)

\* C4 (as claimed): a finished call has raised if and only if its last
\* request failed with no response at all, and has otherwise returned a parsed
\* body or the exhausted-retries payload.
C4_RaisesOnlyOnTransportFailure ==
    (Finished /\ BodiesAreJson) =>
        /\ (pc = "raised") <=> (Len(received) >= 1 /\ Last(received).kind = "noresponse")
        /\ (pc = "returned" => WellFormed(result))

\* the sleep C5 claims for a 429 response carrying header h
ClaimedWait(h) == IF h.present /\ IsIntText(h.text) THEN IntOf(h.text) ELSE DEFAULT_RETRY_AFTER

\* C5 (as claimed): for every 429 response of a call whose retry-after is
\* absent, unparsable or a number of seconds, the call slept the header's
\* integer value, or 60 when absent or unparsable, and went on with the loop.
C5_WaitDuration ==
    \A i \in 1..Len(received) :
        (Is429(received[i]) /\ (IsIntText(received[i].retry_after.text) => IsSeconds(received[i].retry_after)))
        =>  /\ Len(waits) >= i
            /\ waits[i] = ClaimedWait(received[i].retry_after)
            /\ (i = Len(received) => pc = "loop" /\ attempt = i)

\* C6: the token a route handler sends is the caller's token when that is
\* non-empty and not "dummy-token", and DEFAULT_BEARER_TOKEN for the empty
\* string and for "dummy-token"; it is never anything else.
C6_TokenResolution ==
    (pc # "idle" /\ credentials.present) =>
        /\ (credentials.credentials \notin {"", "dummy-token"} => token = credentials.credentials)
        /\ (credentials.credentials \in {"", "dummy-token"} => token = DEFAULT_BEARER_TOKEN)
        /\ token \in {credentials.credentials, DEFAULT_BEARER_TOKEN}

C6_Witness ==
    /\ pc # "idle"
    /\ credentials = [present |-> TRUE, credentials |-> "dummy-token"]
    /\ DEFAULT_BEARER_TOKEN = "env-token"
    /\ token = "env-token"

\* ========================================================== claims, scorer
\* the batch handler has answered the request whose texts are in tweets
BatchAnswered == hpc = "idle" /\ response.kind = "batch"
OnePerInput(ind, ts) ==
    /\ Len(ind) = Len(ts)
    /\ \A i \in 1..Len(ts) : ind[i].text = ts[i]

\* C7 (as claimed): whatever the input list and the model state, the batch
\* response's individual list has one entry per input text, in input order.
C7_OnePerInputAnyState == BatchAnswered => OnePerInput(response.individual, tweets)

\* C7 (amended): when the handler saw the model loaded, individual has one
\* entry per input text, in input order, each carrying that text's sentiment
\* and scores; when it saw the model not loaded, individual is the single
\* "Model still loading..." placeholder whatever the input.
C7_OnePerInputWhenLoaded ==
    BatchAnswered =>
        IF observed
        THEN /\ OnePerInput(response.individual, tweets)
             /\ \A i \in 1..Len(tweets) :
                    /\ response.individual[i].scores = scored(tweets[i]).scores
                    /\ response.individual[i].sentiment = scored(tweets[i]).sentiment
        ELSE /\ Len(response.individual) = 1
             /\ response.individual[1].text = "Model still loading..."
             /\ response.individual[1].sentiment = "neutral"

C7_Witness ==
    /\ BatchAnswered
    /\ observed
    /\ tweets = <<"I love this", "I hate this", "I love this">>
    /\ Len(response.individual) = 3
    /\ response.individual[2].sentiment = "negative"

\* C8: a call of analyze_sentiment made while MODEL_LOADED is False returns
\* the fixed neutral stub for every text, does not use the analyzer and does
\* not raise.
C8_StubWhileNotLoaded ==
    (score_out.kind = "call" /\ ~score_out.loaded) =>
        /\ ~score_out.raised
        /\ ~score_out.touched
        /\ score_out.value.scores = [negative |-> 0, neutral |-> 1000, positive |-> 0]
        /\ score_out.value.sentiment = "neutral"
        /\ score_out.value.confidence = 1000

C8_Witness ==
    /\ score_out.kind = "call"
    /\ ~score_out.loaded
    /\ score_out.text = "I hate this"
    /\ load_pc = "constructed"
    /\ score_out.value.sentiment = "neutral"

\* C9: MODEL_LOADED starts False; only the load thread's assignment at line 30
\* changes it, that assignment happens at most once, the flag never goes from
\* True back to False, and once loading has failed the flag stays False while
\* handlers still answer without an error.
C9_FlagWrittenOnce ==
    /\ ~MODEL_LOADED
    /\ [][/\ (MODEL_LOADED => MODEL_LOADED')
          /\ (MODEL_LOADED' # MODEL_LOADED => load_pc = "constructed" /\ load_pc' = "done")
          /\ (flag_writes' # flag_writes => load_pc = "constructed")
          /\ flag_writes' <= 1
          /\ (hpc' # hpc \/ response' # response \/ score_out' # score_out
                => MODEL_LOADED' = MODEL_LOADED /\ flag_writes' = flag_writes)
          /\ (load_pc = "failed" =>
                /\ load_pc' = "failed"
                /\ ~MODEL_LOADED'
                /\ (response' # response /\ hpc' = "idle" =>
                        response'.kind \in {"batch", "health"})
                /\ (score_out' # score_out => ~score_out'.raised))
         ]_vars

C9_Witness ==
    /\ load_pc = "failed"
    /\ ~MODEL_LOADED
    /\ flag_writes = 0
    /\ BatchAnswered
    /\ tweets = <<"I love this", "I hate this">>
    /\ response = LOADING_RESPONSE

C9_WitnessLoaded ==
    /\ load_pc = "done"
    /\ MODEL_LOADED
    /\ flag_writes = 1

RECURSIVE ComponentTotal(_, _, _)
\* the sum of score component k over the first i entries of ind
ComponentTotal(ind, k, i) ==
    IF i = 0 THEN 0 ELSE ComponentTotal(ind, k, i - 1) + ind[i].scores[k]

\* C10: when the batch handler saw the model loaded, it answers without a
\* division error; for an empty list overall is neutral with scores
\* {negative 0, neutral 1, positive 0}; for a non-empty list each overall score
\* is the sum of that component over the individual results divided by their
\* number, and overall.sentiment is a label whose averaged score no other
\* label's exceeds.
C10_Overall ==
    /\ (hpc = "idle" /\ observed => response.kind # "error")
    /\ (BatchAnswered /\ observed) =>
        LET ov == response.overall
            n == Len(tweets)
        IN IF n = 0
           THEN /\ ov.sentiment = "neutral"
                /\ ov.scores = [negative |-> Rat(0, 1), neutral |-> Rat(1000, 1),
                                positive |-> Rat(0, 1)]
           ELSE /\ \A k \in {"negative", "neutral", "positive"} :
                      /\ ov.scores[k].den = n
                      /\ ov.scores[k].num = ComponentTotal(response.individual, k, n)
                /\ ov.sentiment \in {"negative", "neutral", "positive"}
                /\ \A k \in {"negative", "neutral", "positive"} :
                      ~RatGt(ov.scores[k], ov.scores[ov.sentiment])

C10_Witness ==
    /\ BatchAnswered
    /\ observed
    /\ tweets = <<"I love this", "I hate this">>
    /\ response.overall.sentiment = "positive"
    /\ response.overall.scores.positive = Rat(808, 2)

C10_WitnessEmpty ==
    /\ BatchAnswered
    /\ observed
    /\ tweets = <<>>
    /\ response.overall = NEUTRAL_OVERALL
\* ============================================== claims, executor invariants
RECURSIVE Count429(_)
\* the number of 429 responses among the outcomes q
Count429(q) ==
    IF q = <<>> THEN 0
    ELSE (IF Is429(q[1]) THEN 1 ELSE 0) + Count429(Tail(q))

\* C11 (as claimed): in every state of a call the attempt counter is at most
\* max_retries, at most three requests have been issued, and the number of
\* sleeps is at most three and equals the number of 429 responses received so
\* far.
C11_RetryBounds ==
    /\ attempt <= max_retries
    /\ requests <= 3
    /\ Len(waits) <= 3
    /\ Len(waits) = Count429(received)
\* ===================================================== claims, concurrency
NeutralScores == [negative |-> Rat(0, 1), neutral |-> Rat(1000, 1), positive |-> Rat(0, 1)]

\* C12: at every point of every interleaving of the load thread with the
\* handlers, MODEL_LOADED = True implies that sia has been assigned; a handler
\* inside its scoring loop has seen the flag True and has the analyzer; no
\* handler and no direct scoring call ends in an error from an unassigned
\* analyzer; and a batch handler that read the flag as False answers with a
\* neutral overall and only neutral entries, also when the flag has flipped
\* since.
C12_AnalyzerPublishedBeforeFlag ==
    /\ (MODEL_LOADED => sia = "analyzer")
    /\ (hpc = "batch_loop" => observed /\ MODEL_LOADED /\ sia = "analyzer")
    /\ response.kind # "error"
    /\ (score_out.kind = "call" => ~score_out.raised)
    /\ (score_out.kind = "call" /\ score_out.touched => score_out.loaded)
    /\ (BatchAnswered /\ ~observed) =>
        /\ response.overall.sentiment = "neutral"
        /\ response.overall.scores = NeutralScores
        /\ Len(response.individual) >= 1
        /\ \A i \in 1..Len(response.individual) :
              /\ response.individual[i].sentiment = "neutral"
              /\ response.individual[i].scores = [negative |-> 0, neutral |-> 1000, positive |-> 0]

\* the handler read False at line 275, the load thread then set the flag, and
\* the handler has answered
C12_Witness ==
    /\ BatchAnswered
    /\ ~observed
    /\ MODEL_LOADED
    /\ sia = "analyzer"
    /\ load_pc = "done"
    /\ tweets = <<"I love this", "I hate this">>
    /\ response.overall.sentiment = "neutral"

\* the interleaving itself: the handler holds a stale False while the flag is True
C12_WitnessStaleRead ==
    /\ hpc = "batch_not_loaded"
    /\ ~observed
    /\ MODEL_LOADED
====
